---- MODULE Spec2Model ----
(***************************************************************************)
(* Model of sendgrid_ip_logs_parser.py: main() validates the file path,    *)
(* then ExcelParser.process_file("Sheet1") loads the workbook, looks the   *)
(* sheet up, groups column 4 (access method) by column 1 (IP address) over *)
(* the data rows and prints a summary.                                     *)
(*                                                                         *)
(* Text is a sequence of one-character strings, so that str.strip() is     *)
(* computed and not assumed.  A cell value is None, a str, or a value of   *)
(* another type (int, float, datetime, bool), which has no strip().        *)
(***************************************************************************)
EXTENDS Integers, Sequences, FiniteSets, TLC

\* Bounds of the model.
MaxRows == 2        \* data rows in a worksheet
MaxCalls == 2       \* calls of process_file on one ExcelParser (SpecRerun)

----------------------------------------------------------------------------
\* Cell values (openpyxl cell.value).

NoneCell == [t |-> "none", s |-> <<>>]
NumCell == [t |-> "num", s |-> <<>>]
Str(s) == [t |-> "str", s |-> s]

\* Characters str.strip() removes from both ends.
Whitespace == {" ", "\t", "\n"}

\* Values of column 1 (IP address) and column 4 (access method) in the inputs.
IpCells ==
    { NoneCell, NumCell, Str(<<"a">>), Str(<<" ", "a", "\t">>), Str(<<"b">>) }

MethodCells ==
    { NoneCell, NumCell, Str(<<" ", "w">>), Str(<<"x", "\n">>) }

\* Rows of a worksheet with four columns, and of one with three (max_column
\* of the sheet is the length of every row iter_rows yields).
DataRows4 == { <<ip, NoneCell, NoneCell, m>> : ip \in IpCells, m \in MethodCells }

DataRows3 == { <<ip, NoneCell, NoneCell>> : ip \in {NoneCell, Str(<<"a">>)} }

HeaderRows4 ==
    { <<Str(<<"I", "P">>), NoneCell, NoneCell, Str(<<"M">>)>>,
      <<NumCell, NoneCell, NoneCell, NumCell>> }

HeaderRows3 == { <<Str(<<"I", "P">>), NoneCell, NoneCell>> }

SeqsUpTo(S, n) == UNION { [1..k -> S] : k \in 0..n }

\* All rows of a worksheet, header first; an empty worksheet has no rows.
SheetRows ==
    { <<>> }
    \cup { <<h>> \o d : h \in HeaderRows4, d \in SeqsUpTo(DataRows4, MaxRows) }
    \cup { <<h>> \o d : h \in HeaderRows3, d \in SeqsUpTo(DataRows3, MaxRows) }

\* The file on disk: a workbook with one titled sheet, or something
\* load_workbook raises on.
Workbooks ==
    { [ok |-> TRUE, title |-> t, rows |-> r] : t \in {"Sheet1", "Sheet2"}, r \in SheetRows }
    \cup { [ok |-> FALSE, title |-> "", rows |-> <<>>] }

\* file_path: whether it exists, and its suffix (Path.suffix).
Suffixes == { ".xlsx", ".xls", ".xlsm", ".csv", ".XLSX", "" }

Paths == [exists : BOOLEAN, suffix : Suffixes]

----------------------------------------------------------------------------
\* Pure helpers.

RECURSIVE LStrip(_)
LStrip(s) ==
    IF s # <<>> /\ Head(s) \in Whitespace THEN LStrip(Tail(s)) ELSE s

RECURSIVE RStrip(_)
RStrip(s) ==
    IF s # <<>> /\ s[Len(s)] \in Whitespace THEN RStrip(SubSeq(s, 1, Len(s) - 1)) ELSE s

\* A strip() that forgets the trailing end.
Strip_LeftOnly(s) == LStrip(s)

\* str.strip()
Strip(s) == RStrip(LStrip(s))

\* `cell.value if cell.value is not None else ""`
ValueOrEmpty(c) == IF c.t = "none" THEN Str(<<>>) ELSE c

\* The body of the loop of parse_ip_accesses_logs up to the point where it
\* changes state: the exception it raises, or the (ip_address, access_method)
\* pair it goes on with.
RowOutcome(row) ==
    IF Len(row) < 4 THEN [ok |-> FALSE, err |-> "IndexError", ip |-> <<>>, method |-> <<>>]
    ELSE LET col1 == ValueOrEmpty(row[1])
             col4 == ValueOrEmpty(row[4])
         IN IF col1.t # "str" \/ col4.t # "str"
            THEN [ok |-> FALSE, err |-> "AttributeError", ip |-> <<>>, method |-> <<>>]
            ELSE [ok |-> TRUE, err |-> "", ip |-> Strip(col1.s), method |-> Strip(col4.s)]

\* worksheet.iter_rows(min_row=2)
IterRows(rows) == SubSeq(rows, 2, Len(rows))

\* ip_accesses_dict is a sequence of [k, v] entries in insertion order.
DictKeys(d) == { d[j].k : j \in 1..Len(d) }

\* An append that keeps a method once per key.
DictAppend_Dedup(d, key, m) ==
    IF key \in DictKeys(d)
    THEN [j \in 1..Len(d) |->
            IF d[j].k = key /\ \A q \in 1..Len(d[j].v) : d[j].v[q] # m
            THEN [k |-> key, v |-> Append(d[j].v, m)] ELSE d[j]]
    ELSE Append(d, [k |-> key, v |-> <<m>>])

\* self.ip_accesses_dict[ip_address].append(access_method) on a defaultdict(list)
DictAppend(d, key, m) ==
    IF key \in DictKeys(d)
    THEN [j \in 1..Len(d) |->
            IF d[j].k = key THEN [k |-> key, v |-> Append(d[j].v, m)] ELSE d[j]]
    ELSE Append(d, [k |-> key, v |-> <<m>>])

\* A console line.
Line(kind, num, text) == [kind |-> kind, num |-> num, text |-> text]

\* An allow-list without the legacy extension.
ValidSuffixes_NoXls == { ".xlsx", ".xlsm" }

ValidSuffixes == { ".xlsx", ".xls", ".xlsm" }

\* validate_file: its verdict and what it prints.
ValidateResult(p) == p.exists /\ p.suffix \in ValidSuffixes

ValidateOutput(p) ==
    IF ~p.exists THEN << Line("error_not_exist", 0, <<>>) >>
    ELSE IF p.suffix \notin ValidSuffixes THEN << Line("error_not_excel", 0, <<>>) >>
    ELSE <<>>

\* An except clause that swallows the exception without a message.
OnException_Silent(o, err) == o

\* except Exception as e: console.print(f"Error processing file: {str(e)}")
OnException(o, err) == Append(o, Line("error_processing", 0, <<err>>))

\* The two counts printed in the other order.
SummaryLines_Swapped(n, d) == << Line("distinct", Len(d), <<>>), Line("rows", n, <<>>) >>

\* The two summary lines of process_file.
SummaryLines(n, d) == << Line("rows", n, <<>>), Line("distinct", Len(d), <<>>) >>

\* process_file("Sheet1") in main
SheetName == "Sheet1"

----------------------------------------------------------------------------
VARIABLES
    pc,           \* position of main / process_file
    file_path,    \* self.file_path
    disk,         \* the file's content: {} until load_workbook first reads it
    valid,        \* what validate_file returned
    opened,       \* load_workbook has been called
    dict,         \* self.ip_accesses_dict
    rows_parsed,  \* local of parse_ip_accesses_logs
    idx,          \* position of the iter_rows iterator (1-based, in data rows)
    kidx,         \* position of the loop over ip_accesses_dict.keys()
    out,          \* console output, in order
    outcome,      \* how the last process_file call ended
    calls,        \* number of process_file calls made
    firstIndex,   \* ip_accesses_dict as the first process_file call left it
    exit_status   \* process exit status; -1 while running

vars == << pc, file_path, disk, valid, opened, dict, rows_parsed, idx, kidx,
           out, outcome, calls, firstIndex, exit_status >>

\* The workbook and worksheet process_file works on.
Wb == CHOOSE w \in disk : TRUE

Data == IterRows(Wb.rows)

\* ExcelParser(args.file_path): __init__ creates an empty ip_accesses_dict.
Init ==
    /\ pc = "start"
    /\ file_path \in Paths
    /\ disk = {}
    /\ valid = FALSE
    /\ opened = FALSE
    /\ dict = <<>>
    /\ rows_parsed = 0
    /\ idx = 0
    /\ kidx = 0
    /\ out = <<>>
    /\ outcome = "none"
    /\ calls = 0
    /\ firstIndex = <<>>
    /\ exit_status = -1

\* excel_parser.validate_file()
ValidateFile ==
    /\ pc = "start"
    /\ valid' = ValidateResult(file_path)
    /\ out' = out \o ValidateOutput(file_path)
    /\ pc' = "validated"
    /\ UNCHANGED << file_path, disk, opened, dict, rows_parsed, idx, kidx,
                    outcome, calls, firstIndex, exit_status >>

\* Falling through to process_file although validation failed.
MainExitInvalid_FallThrough ==
    /\ pc = "validated"
    /\ ~valid
    /\ pc' = "load"
    /\ calls' = 1
    /\ UNCHANGED << file_path, disk, valid, opened, dict, rows_parsed, idx, kidx,
                    out, outcome, firstIndex, exit_status >>

\* if not excel_parser.validate_file(): sys.exit(1)
MainExitInvalid ==
    /\ pc = "validated"
    /\ ~valid
    /\ pc' = "exit"
    /\ exit_status' = 1
    /\ UNCHANGED << file_path, disk, valid, opened, dict, rows_parsed, idx, kidx,
                    out, outcome, calls, firstIndex >>

\* excel_parser.process_file("Sheet1")
CallProcessFile ==
    /\ pc = "validated"
    /\ valid
    /\ pc' = "load"
    /\ calls' = 1
    /\ UNCHANGED << file_path, disk, valid, opened, dict, rows_parsed, idx, kidx,
                    out, outcome, firstIndex, exit_status >>

\* workbook = openpyxl.load_workbook(self.file_path, data_only=True)
\* The file does not change during a run: a later load reads the same content.
LoadWorkbook ==
    /\ pc = "load"
    /\ \E wb \in Workbooks :
        /\ disk = {} \/ disk = {wb}
        /\ disk' = {wb}
        /\ opened' = TRUE
        /\ IF wb.ok
           THEN /\ pc' = "sheet"
                /\ UNCHANGED << out, outcome >>
           ELSE /\ pc' = "returned"
                /\ out' = OnException(out, "LoadError")
                /\ outcome' = "error"
    /\ UNCHANGED << file_path, valid, dict, rows_parsed, idx, kidx, calls,
                    firstIndex, exit_status >>

\* A lookup that reports the missing sheet and goes on to workbook[sheet_name].
LookupSheet_NoReturn ==
    /\ pc = "sheet"
    /\ IF SheetName \notin {Wb.title}
       THEN /\ out' = OnException(Append(out, Line("error_sheet_not_found", 0, <<>>)), "KeyError")
            /\ outcome' = "error"
            /\ pc' = "returned"
            /\ UNCHANGED << rows_parsed, idx >>
       ELSE /\ rows_parsed' = 0
            /\ idx' = 1
            /\ pc' = "rows"
            /\ UNCHANGED << out, outcome >>
    /\ UNCHANGED << file_path, disk, valid, opened, dict, kidx, calls,
                    firstIndex, exit_status >>

\* if sheet_name not in workbook.sheetnames: print, return;
\* else worksheet = workbook[sheet_name] and parse_ip_accesses_logs starts
\* (rows_parsed = 0, a new iter_rows iterator).
\* ("Sheet1" is truthy, so `if sheet_name:` is always taken.)
LookupSheet ==
    /\ pc = "sheet"
    /\ IF SheetName \notin {Wb.title}
       THEN /\ out' = Append(out, Line("error_sheet_not_found", 0, <<>>))
            /\ outcome' = "not_found"
            /\ pc' = "returned"
            /\ UNCHANGED << rows_parsed, idx >>
       ELSE /\ rows_parsed' = 0
            /\ idx' = 1
            /\ pc' = "rows"
            /\ UNCHANGED << out, outcome >>
    /\ UNCHANGED << file_path, disk, valid, opened, dict, kidx, calls,
                    firstIndex, exit_status >>

\* A loop body that looks the key up in the defaultdict before it strips the
\* access method: a row whose method cannot be stripped leaves an empty list.
ParseRow_EarlyInsert ==
    /\ pc = "rows"
    /\ idx <= Len(Data)
    /\ LET r == RowOutcome(Data[idx])
           row == Data[idx]
       IN IF r.ok
          THEN /\ rows_parsed' = rows_parsed + 1
               /\ dict' = DictAppend(dict, r.ip, r.method)
               /\ idx' = idx + 1
               /\ UNCHANGED << pc, out, outcome >>
          ELSE /\ out' = OnException(out, r.err)
               /\ outcome' = "error"
               /\ pc' = "returned"
               /\ dict' = IF Len(row) >= 4 /\ ValueOrEmpty(row[1]).t = "str"
                             /\ Strip(ValueOrEmpty(row[1]).s) \notin DictKeys(dict)
                          THEN Append(dict, [k |-> Strip(ValueOrEmpty(row[1]).s), v |-> <<>>])
                          ELSE dict
               /\ UNCHANGED << rows_parsed, idx >>
    /\ UNCHANGED << file_path, disk, valid, opened, kidx, calls, firstIndex,
                    exit_status >>

\* One iteration of the loop of parse_ip_accesses_logs; an exception leaves
\* the loop and process_file through its except clause.
ParseRow ==
    /\ pc = "rows"
    /\ idx <= Len(Data)
    /\ LET r == RowOutcome(Data[idx])
       IN IF r.ok
          THEN /\ rows_parsed' = rows_parsed + 1
               /\ dict' = DictAppend(dict, r.ip, r.method)
               /\ idx' = idx + 1
               /\ UNCHANGED << pc, out, outcome >>
          ELSE /\ out' = OnException(out, r.err)
               /\ outcome' = "error"
               /\ pc' = "returned"
               /\ UNCHANGED << rows_parsed, dict, idx >>
    /\ UNCHANGED << file_path, disk, valid, opened, kidx, calls, firstIndex,
                    exit_status >>

\* The iterator is exhausted: return rows_parsed.
ParseDone ==
    /\ pc = "rows"
    /\ idx > Len(Data)
    /\ pc' = "report"
    /\ UNCHANGED << file_path, disk, valid, opened, dict, rows_parsed, idx, kidx,
                    out, outcome, calls, firstIndex, exit_status >>

\* The two console.print calls after parse_ip_accesses_logs returned.
ReportCounts ==
    /\ pc = "report"
    /\ out' = out \o SummaryLines(rows_parsed, dict)
    /\ kidx' = 1
    /\ pc' = "keys"
    /\ UNCHANGED << file_path, disk, valid, opened, dict, rows_parsed, idx,
                    outcome, calls, firstIndex, exit_status >>

\* for key in self.ip_accesses_dict.keys(): print(key)
PrintKey ==
    /\ pc = "keys"
    /\ kidx <= Len(dict)
    /\ out' = Append(out, Line("key", 0, dict[kidx].k))
    /\ kidx' = kidx + 1
    /\ UNCHANGED << pc, file_path, disk, valid, opened, dict, rows_parsed, idx,
                    outcome, calls, firstIndex, exit_status >>

\* The loop over the keys ends and process_file returns.
ReportDone ==
    /\ pc = "keys"
    /\ kidx > Len(dict)
    /\ outcome' = "ok"
    /\ pc' = "returned"
    /\ UNCHANGED << file_path, disk, valid, opened, dict, rows_parsed, idx, kidx,
                    out, calls, firstIndex, exit_status >>

\* main returns after process_file: exit status 0.
MainExit ==
    /\ pc = "returned"
    /\ pc' = "exit"
    /\ exit_status' = 0
    /\ UNCHANGED << file_path, disk, valid, opened, dict, rows_parsed, idx, kidx,
                    out, outcome, calls, firstIndex >>

\* A caller that calls process_file("Sheet1") again on the same ExcelParser:
\* nothing in process_file or parse_ip_accesses_logs resets ip_accesses_dict.
CallProcessFileAgain ==
    /\ pc = "returned"
    /\ calls < MaxCalls
    /\ calls' = calls + 1
    /\ firstIndex' = IF calls = 1 THEN dict ELSE firstIndex
    /\ pc' = "load"
    /\ UNCHANGED << file_path, disk, valid, opened, dict, rows_parsed, idx, kidx,
                    out, outcome, exit_status >>

Next ==
    \/ ValidateFile
    \/ MainExitInvalid
    \/ CallProcessFile
    \/ LoadWorkbook
    \/ LookupSheet
    \/ ParseRow
    \/ ParseDone
    \/ ReportCounts
    \/ PrintKey
    \/ ReportDone
    \/ MainExit

\* One run of main.
Spec == Init /\ [][Next]_vars

NextRerun == Next \/ CallProcessFileAgain

\* An ExcelParser on which process_file may be called more than once.
SpecRerun == Init /\ [][NextRerun]_vars

----------------------------------------------------------------------------
\* Reference definitions the properties are stated with.  They are written
\* independently of Strip, IterRows, RowOutcome and DictAppend.

\* s without its leading and trailing whitespace, stated by positions.
RefTrim(s) ==
    LET keep == { i \in 1..Len(s) : s[i] \notin Whitespace }
    IN IF keep = {} THEN <<>>
       ELSE SubSeq(s, CHOOSE i \in keep : \A j \in keep : i <= j,
                      CHOOSE i \in keep : \A j \in keep : j <= i)

RefText(c) == IF c.t = "str" THEN c.s ELSE <<>>

RefIp(row) == RefTrim(RefText(row[1]))

RefMethod(row) == RefTrim(RefText(row[4]))

\* The data rows of the loaded worksheet: all rows but the first.
RefData == IF Wb.rows = <<>> THEN <<>> ELSE Tail(Wb.rows)

\* A row the loop cannot process: no fourth column, or a value that is
\* neither None nor text in column 1 or 4.
RefBadRow(row) ==
    \/ Len(row) < 4
    \/ row[1].t = "num"
    \/ row[4].t = "num"

RECURSIVE RefMethods(_, _)
RefMethods(rows, key) ==
    IF rows = <<>> THEN <<>>
    ELSE IF RefIp(Head(rows)) = key
         THEN <<RefMethod(Head(rows))>> \o RefMethods(Tail(rows), key)
         ELSE RefMethods(Tail(rows), key)

\* d is the grouping of rows: one entry per distinct trimmed IP, holding the
\* trimmed methods of the rows with that IP, in row order.
RefGrouping(d, rows) ==
    /\ DictKeys(d) = { RefIp(rows[j]) : j \in 1..Len(rows) }
    /\ Cardinality(DictKeys(d)) = Len(d)
    /\ \A j \in 1..Len(d) : d[j].v = RefMethods(rows, d[j].k)

RECURSIVE SumLens(_)
SumLens(d) == IF d = <<>> THEN 0 ELSE Len(Head(d).v) + SumLens(Tail(d))

\* Length of the list stored under key in d; 0 when the key is absent.
LenUnder(d, key) ==
    IF key \in DictKeys(d) THEN Len((CHOOSE e \in {d[j] : j \in 1..Len(d)} : e.k = key).v)
    ELSE 0

\* process_file has returned (or main has exited after it).
Returned == pc \in {"returned", "exit"} /\ disk # {}

\* The aggregation pass ran to its end.
PassDone == disk # {} /\ (pc \in {"report", "keys"} \/ (Returned /\ outcome = "ok"))

----------------------------------------------------------------------------
\* C1: on a fresh ExcelParser, at every point of the aggregation pass the sum
\* of the lengths of the lists of ip_accesses_dict equals rows_parsed and the
\* number of distinct keys is at most rows_parsed; every processed row adds
\* exactly one entry to exactly one key's list, and the dict changes in no
\* other way.
C1_PartitionInvariant ==
    /\ [](/\ SumLens(dict) = rows_parsed
          /\ Cardinality(DictKeys(dict)) <= rows_parsed
          /\ Cardinality(DictKeys(dict)) = Len(dict))
    /\ [][ /\ (rows_parsed' = rows_parsed + 1) =>
                /\ DictKeys(dict) \subseteq DictKeys(dict')
                /\ \E key \in DictKeys(dict') :
                     \A k \in DictKeys(dict') :
                        LenUnder(dict', k) = LenUnder(dict, k) + (IF k = key THEN 1 ELSE 0)
           /\ (dict' # dict) => (rows_parsed' = rows_parsed + 1) ]_vars

\* Two rows were processed and both went to the same key.
C1_Witness ==
    /\ pc = "rows"
    /\ rows_parsed = 2
    /\ Len(dict) = 1
    /\ Len(dict[1].v) = 2

\* C2: for a sheet with a header row and N data rows of four columns, the
\* pass completes and returns N whatever the cells hold.
C2_RowCountIsN ==
    (/\ Returned
     /\ Wb.ok
     /\ Wb.title = SheetName
     /\ Wb.rows # <<>>
     /\ \A j \in 1..Len(Wb.rows) : Len(Wb.rows[j]) >= 4)
    => (outcome = "ok" /\ rows_parsed = Len(Wb.rows) - 1)

\* C3: after a successful pass on a fresh ExcelParser, ip_accesses_dict is
\* the reference grouping of the data rows (header excluded): its keys are
\* the trimmed IP cells (None as ""), and each list holds the trimmed methods
\* of the rows with that key, in row order, duplicates kept.
C3_ReferenceGrouping ==
    PassDone => RefGrouping(dict, RefData)

\* Two rows whose raw IP cells differ were grouped under one key, in order.
C3_Witness ==
    /\ Returned
    /\ outcome = "ok"
    /\ Len(RefData) = 2
    /\ RefData[1][1] # RefData[2][1]
    /\ Len(dict) = 1
    /\ dict[1].v = << RefMethod(RefData[1]), RefMethod(RefData[2]) >>
    /\ RefMethod(RefData[1]) # RefMethod(RefData[2])

\* C4: a second process_file("Sheet1") on the same ExcelParser over the same
\* file leaves ip_accesses_dict equal to what the first call left.
C4_RerunIdentical ==
    (Returned /\ calls = 2 /\ outcome = "ok") => dict = firstIndex

\* C5: validate_file returns true exactly when the path exists and its suffix
\* is .xlsx, .xls or .xlsm; when it returns false it has printed exactly one
\* diagnostic (the not-exist one when the path does not exist); when it
\* returns true it has printed and changed nothing.
C5_ValidateFile ==
    pc = "validated" =>
        /\ valid <=> (file_path.exists /\ file_path.suffix \in {".xlsx", ".xls", ".xlsm"})
        /\ valid => /\ out = <<>>
                    /\ dict = <<>>
                    /\ ~opened
                    /\ exit_status = -1
        /\ ~valid => /\ Len(out) = 1
                     /\ out[1].kind = IF file_path.exists THEN "error_not_excel"
                                      ELSE "error_not_exist"
                     /\ dict = <<>>
                     /\ ~opened

\* validate_file rejected a path that neither exists nor has a supported suffix.
C5_Witness ==
    /\ pc = "validated"
    /\ ~valid
    /\ ~file_path.exists
    /\ file_path.suffix = ".csv"
    /\ Len(out) = 1

\* C6: the workbook is opened and the aggregation started only after
\* validate_file returned true; when it returned false the process exits
\* with status 1 without opening the workbook or touching ip_accesses_dict;
\* when it returned true the run goes on until it exits, with status 0.
C6_ValidatorGates ==
    /\ (opened \/ disk # {} \/ dict # <<>> \/ calls > 0) => valid
    /\ pc \notin {"start", "validated", "exit"} => valid
    /\ (pc = "exit" /\ ~valid) => exit_status = 1
    /\ (pc = "exit" /\ valid) => (exit_status = 0 /\ opened)
    /\ pc # "exit" => (exit_status = -1 /\ ENABLED Next)

\* A run that passed validation, opened the workbook and exited.
C6_Witness ==
    /\ pc = "exit"
    /\ valid
    /\ opened
    /\ exit_status = 0

\* C7: when "Sheet1" is not among the workbook's sheets, process_file prints
\* the sheet-not-found message and nothing else, processes no row, leaves
\* ip_accesses_dict empty, raises nothing, and main exits with status 0.
C7_SheetNotFound ==
    (Returned /\ Wb.ok /\ Wb.title # "Sheet1") =>
        /\ outcome = "not_found"
        /\ out = << Line("error_sheet_not_found", 0, <<>>) >>
        /\ dict = <<>>
        /\ rows_parsed = 0
        /\ pc = "exit" => exit_status = 0

\* Main exited after a lookup of a sheet the workbook does not have.
C7_Witness ==
    /\ pc = "exit"
    /\ disk # {}
    /\ Wb.ok
    /\ Wb.title = "Sheet2"
    /\ Len(Wb.rows) = 3
    /\ exit_status = 0

\* C8: process_file ends in its except clause exactly when load_workbook
\* fails or a data row of the sheet cannot be processed; the failure is then
\* reported once, with the exception's text, no summary is printed, nothing
\* more is processed or printed afterwards, and main exits with status 0.
C8_FailureCaught ==
    /\ [](Returned =>
            /\ outcome = "error" <=>
                 \/ ~Wb.ok
                 \/ /\ Wb.title = "Sheet1"
                    /\ \E j \in 1..Len(RefData) : RefBadRow(RefData[j])
            /\ outcome = "error" =>
                 /\ Len(out) = 1
                 /\ out[1].kind = "error_processing"
                 /\ out[1].text \in { <<"LoadError">>, <<"IndexError">>, <<"AttributeError">> }
                 /\ (out[1].text = <<"LoadError">>) <=> ~Wb.ok
                 /\ pc = "exit" => exit_status = 0)
    /\ [][outcome = "error" =>
            /\ out' = out
            /\ dict' = dict
            /\ rows_parsed' = rows_parsed
            /\ outcome' = outcome]_vars

\* A failure in the second data row, caught, and the process has exited.
C8_Witness ==
    /\ pc = "exit"
    /\ outcome = "error"
    /\ Wb.ok
    /\ idx = 2
    /\ exit_status = 0

\* C9: the report is printed only after the pass has finished, in the order
\* row count, distinct-key count, one line per key; every key is printed
\* exactly once, the number of key lines is the reported distinct count, and
\* the reported row count is the value parse_ip_accesses_logs returned.
C9_ReportOrder ==
    /\ (\E j \in 1..Len(out) : out[j].kind \in {"rows", "distinct", "key"}) =>
            /\ PassDone
            /\ pc # "report"
            /\ Len(out) >= 2
            /\ out[1] = Line("rows", rows_parsed, <<>>)
            /\ out[2] = Line("distinct", Cardinality(DictKeys(dict)), <<>>)
            /\ \A j \in 3..Len(out) : out[j] = Line("key", 0, dict[j - 2].k)
    /\ (Returned /\ outcome = "ok") =>
            /\ Len(out) = 2 + out[2].num
            /\ rows_parsed = Len(RefData)
            /\ \A k \in DictKeys(dict) :
                 Cardinality({ j \in 1..Len(out) : out[j].kind = "key" /\ out[j].text = k }) = 1

\* A complete report with two distinct keys.
C9_Witness ==
    /\ Returned
    /\ outcome = "ok"
    /\ Len(out) = 4
    /\ out[2].num = 2
    /\ out[3] # out[4]

\* The index of the first data row that cannot be processed.
FirstBad == CHOOSE j \in 1..Len(RefData) :
                /\ RefBadRow(RefData[j])
                /\ \A q \in 1..(j - 1) : ~RefBadRow(RefData[q])

\* C10: a failure at data row k is not rolled back: when process_file has
\* returned, ip_accesses_dict is the grouping of rows 1..k-1 (list lengths
\* summing to k-1), the failing row has added nothing, and no summary was
\* printed.
C10_PartialIndexKept ==
    (Returned /\ Wb.ok /\ outcome = "error") =>
        /\ idx = FirstBad
        /\ RefGrouping(dict, SubSeq(RefData, 1, FirstBad - 1))
        /\ SumLens(dict) = FirstBad - 1
        /\ \A j \in 1..Len(out) : out[j].kind \notin {"rows", "distinct", "key"}

\* The second data row failed and the first one's entry is still there.
C10_Witness ==
    /\ pc = "returned"
    /\ outcome = "error"
    /\ Wb.ok
    /\ idx = 2
    /\ Len(dict) = 1
    /\ RefBadRow(RefData[2])

====
